---- MODULE Spec2Model ----
(***************************************************************************)
(* Model of ttconv's IMSC reader (ttconv/imsc/imsc_reader.py): to_model    *)
(* walks a parsed, namespace-aware element tree and builds the document    *)
(* model (regions, body, content elements, styles).                        *)
(*                                                                         *)
(* An element is a record [tag, attrib, children]; attrib is a function    *)
(* from attribute names to values (a dict).  Python's None is the empty    *)
(* tuple and a present value v is <<v>>.  Texts that the reader parses     *)
(* with a regular expression are sequences of one-character strings.       *)
(***************************************************************************)
EXTENDS Integers, Sequences, FiniteSets, TLC

VARIABLES
  xml_tree,     \* the root element of the input tree (never changes)
  pc,           \* "start", "children" (the loop of _process_tt_element), "done"
  doc,          \* context.doc: None or <<[regions, body]>>
  cr_columns,   \* context.cr_columns
  cr_rows,      \* context.cr_rows
  space,        \* local 'space' of _process_tt_element
  lang,         \* local 'lang' of _process_tt_element
  has_body,     \* local 'has_body' of _process_tt_element
  has_head,     \* local 'has_head' of _process_tt_element
  idx,          \* position of the for loop over the children of tt
  log,          \* what LOGGER received, in order
  result        \* "running", "None", "Document" (context.doc) or "Exception"

vars == <<xml_tree, pc, doc, cr_columns, cr_rows, space, lang, has_body,
          has_head, idx, log, result>>

None == <<>>
Some(v) == <<v>>

-----------------------------------------------------------------------------
(* Bounds of the model *)

MaxTop == 3        \* children of the root in the inputs that vary their order
MaxHeadNodes == 3  \* elements below the head in the inputs that vary the head
MaxBodyNodes == 2  \* elements below the body in the inputs that vary the body
MaxLHLen == 3      \* length of the generated tts:lineHeight texts
MaxCRLen == 4      \* length of the generated cellResolution texts

-----------------------------------------------------------------------------
(* Qualified names *)

TTML_NS == "http://www.w3.org/ns/ttml"
TTP_NS == "http://www.w3.org/ns/ttml#parameter"
TTS_NS == "http://www.w3.org/ns/ttml#styling"
XML_NS == "http://www.w3.org/XML/1998/namespace"

\* the name an element tree gives to local name l of namespace ns
Clark(ns, l) == "{" \o ns \o "}" \o l

BODY_ELEMENT_QNAME == Clark(TTML_NS, "body")
DIV_ELEMENT_QNAME == Clark(TTML_NS, "div")
P_ELEMENT_QNAME == Clark(TTML_NS, "p")
SPAN_ELEMENT_QNAME == Clark(TTML_NS, "span")
TT_ELEMENT_QNAME == Clark(TTML_NS, "tt")
HEAD_ELEMENT_QNAME == Clark(TTML_NS, "head")
LAYOUT_ELEMENT_QNAME == Clark(TTML_NS, "layout")
REGION_ELEMENT_QNAME == Clark(TTML_NS, "region")
OTHER_ELEMENT_QNAME == Clark(TTML_NS, "metadata")  \* a tag the reader does not know

XMLID_ATTRIB_QNAME == Clark(XML_NS, "id")
XMLLANG_ATTRIB_QNAME == Clark(XML_NS, "lang")
XMLSPACE_ATTRIB_QNAME == Clark(XML_NS, "space")
REGION_ATTRIB_NAME == "region"
\* the source builds this name without the braces of the namespace
CELLRESOLUTION_ATTRIB_QNAME == TTP_NS \o "cellResolution"
\* the name a namespace-aware parser gives to ttp:cellResolution
TTP_CELLRESOLUTION_CLARK == Clark(TTP_NS, "cellResolution")
LINEHEIGHT_QNAME == Clark(TTS_NS, "lineHeight")

\* ttml_element.attrib.get(name)
AttribGet(attrib, name) == IF name \in DOMAIN attrib THEN Some(attrib[name]) ELSE None

\* Python's 'a or b' where a is None or a string / enumeration member
PyOr(a, b) == IF a # None /\ a[1] # "" THEN a[1] ELSE b

-----------------------------------------------------------------------------
(* Texts and the two regular expressions *)

Digits == {"0", "1", "2", "3", "4", "5", "6", "7", "8", "9"}

DigitVal(c) ==
  CASE c = "0" -> 0 [] c = "1" -> 1 [] c = "2" -> 2 [] c = "3" -> 3
    [] c = "4" -> 4 [] c = "5" -> 5 [] c = "6" -> 6 [] c = "7" -> 7
    [] c = "8" -> 8 [] c = "9" -> 9

AllDigits(t) == \A k \in 1..Len(t) : t[k] \in Digits

\* the text from position a to the end
Tail_(t, a) == SubSeq(t, a, Len(t))

\* length of the longest run of digits of t that starts at position a
RECURSIVE DigitRun(_, _)
DigitRun(t, a) ==
  IF a <= Len(t) /\ t[a] \in Digits THEN 1 + DigitRun(t, a + 1) ELSE 0

\* int() of a text of digits
RECURSIVE IntOf(_)
IntOf(t) ==
  IF t = <<>> THEN 0 ELSE 10 * IntOf(SubSeq(t, 1, Len(t) - 1)) + DigitVal(t[Len(t)])

RECURSIVE Pow10(_)
Pow10(n) == IF n = 0 THEN 1 ELSE 10 * Pow10(n - 1)

\* a number as a fraction without trailing zeros in the denominator
RECURSIVE Norm(_, _)
Norm(num, den) ==
  IF den > 1 /\ num % 10 = 0 THEN Norm(num \div 10, den \div 10)
  ELSE [num |-> num, den |-> den]

\* the unit tokens of LENGTH_RE, in the order of the alternation
LengthUnits == <<"px", "em", "c", "%", "rh", "rw">>
UnitText(u) ==
  CASE u = "px" -> <<"p", "x">> [] u = "em" -> <<"e", "m">> [] u = "c" -> <<"c">>
    [] u = "%" -> <<"%">> [] u = "rh" -> <<"r", "h">> [] u = "rw" -> <<"r", "w">>

\* the length of an optional sign at the start of t
SignLen(t) == IF t # <<>> /\ t[1] \in {"+", "-"} THEN 1 ELSE 0

\* (?:\.\d+)? at position p of t: the position after it
AfterFraction(t, p) ==
  IF p <= Len(t) /\ t[p] = "." /\ DigitRun(t, p + 1) > 0
  THEN p + 1 + DigitRun(t, p + 1) ELSE p

\* (px|em|c|%|rh|rw)$ on the rest of the text: the alternatives that match;
\* '$' also matches before a final newline
UnitsMatching(rest) ==
  {k \in 1..Len(LengthUnits) :
     rest \in {UnitText(LengthUnits[k]), UnitText(LengthUnits[k]) \o <<"\n">>}}

\* the groups of a match whose first group ends before position p
LengthGroups(t, p, us) ==
  IF us = {} THEN None
  ELSE Some([g1 |-> SubSeq(t, 1, p - 1),
             g2 |-> LengthUnits[CHOOSE k \in us : \A j \in us : k <= j]])

LengthUnitAt(t, p) == LengthGroups(t, p, UnitsMatching(Tail_(t, p)))

\* LENGTH_RE.match(t): ^((?:\+|\-)?\d*(?:\.\d+)?)(px|em|c|%|rh|rw)$
\* None, or the groups [g1, g2]
LENGTH_RE_match(t) ==
  LengthUnitAt(t, AfterFraction(t, SignLen(t) + DigitRun(t, SignLen(t) + 1) + 1))

\* the value of sign, integer digits and fraction digits; None when there is no
\* digit at all or the text is not of that form
FloatValue(sgn, int, frac, formed) ==
  IF formed /\ AllDigits(frac) /\ Len(int) + Len(frac) > 0
  THEN Some(Norm(sgn * (IntOf(int) * Pow10(Len(frac)) + IntOf(frac)),
                 Pow10(Len(frac))))
  ELSE None

\* the text b after the sign, with d leading digits
FloatBody(sgn, b, d) ==
  FloatValue(sgn, SubSeq(b, 1, d),
             IF d < Len(b) THEN Tail_(b, d + 2) ELSE <<>>,
             d = Len(b) \/ b[d + 1] = ".")

FloatUnsigned(sgn, b) == FloatBody(sgn, b, DigitRun(b, 1))

\* float(g): None when Python raises ValueError, else the value
PyFloat(g) ==
  FloatUnsigned(IF SignLen(g) = 1 /\ g[1] = "-" THEN -1 ELSE 1,
                Tail_(g, SignLen(g) + 1))

\* model.LengthType(value, units)
LengthType(value, units) == [value |-> value, units |-> units]

\* the return of extract, or the ValueError of float
LengthOrRaise(v, units) ==
  IF v = None THEN [raised |-> TRUE, value |-> None]
  ELSE [raised |-> FALSE, value |-> Some(LengthType(v[1], units))]

\* extract once LENGTH_RE.match has returned m
LineHeight_matched(m) ==
  IF m = None THEN [raised |-> TRUE, value |-> None]
  ELSE LengthOrRaise(PyFloat(m[1].g1), m[1].g2)

\* StyleProperties.LineHeight.extract: [raised, value]
LineHeight_extract(xml_attrib) == LineHeight_matched(LENGTH_RE_match(xml_attrib))

\* StyleProperties.BY_QNAME: qualified attribute name -> style property
BY_QNAME_keys == {LINEHEIGHT_QNAME}
ModelProp(qname) == "LineHeight"
PropExtract(qname, text) == LineHeight_extract(text)

\* (\d+) (\d+) with d1 digits at the start of t
CellGroups(t, d1) ==
  IF d1 > 0 /\ d1 < Len(t) /\ t[d1 + 1] = " " /\ DigitRun(t, d1 + 2) > 0
  THEN Some([g1 |-> SubSeq(t, 1, d1),
             g2 |-> SubSeq(t, d1 + 2, d1 + 1 + DigitRun(t, d1 + 2))])
  ELSE None

\* CELL_RESOLUTION_RE.match(t): (\d+) (\d+), anchored at the start only
CELL_RESOLUTION_RE_match(t) == CellGroups(t, DigitRun(t, 1))

\* all texts over alphabet of length at most n
RECURSIVE Texts(_, _)
Texts(alphabet, n) ==
  IF n = 0 THEN {<<>>}
  ELSE LET shorter == Texts(alphabet, n - 1)
       IN shorter \cup {Append(t, c) : t \in shorter, c \in alphabet}

-----------------------------------------------------------------------------
(* The document model the reader builds (ttconv.model) *)

EmptyDict == [n \in {} |-> n]

\* d[k] = v of a dict
DictSet(d, k, v) == [n \in DOMAIN d \cup {k} |-> IF n = k THEN v ELSE d[n]]

WhiteSpaceHandling_members == {"default", "preserve"}
WhiteSpaceHandling_DEFAULT == "default"

Document_new == [regions |-> EmptyDict, body |-> None]
put_region(d, r) == [d EXCEPT !.regions = DictSet(d.regions, r.id, r)]
get_region(d, rid) == IF rid \in DOMAIN d.regions THEN Some(d.regions[rid]) ELSE None
set_body(d, b) == [d EXCEPT !.body = b]

\* model.Region(rid, doc)
Region_new(rid) == [id |-> rid, space |-> None, lang |-> None, styles |-> EmptyDict]

\* model.Body(), model.Div(), model.P()
ContentElement_new(kind) ==
  [kind |-> kind, children |-> <<>>, region |-> None, space |-> None,
   lang |-> None, styles |-> EmptyDict]

push_child(element, child) == [element EXCEPT !.children = Append(@, child)]
set_region(element, r) == [element EXCEPT !.region = Some(r)]
set_style(element, prop, value) == [element EXCEPT !.styles = DictSet(@, prop, value)]
set_space(element, v) == [element EXCEPT !.space = Some(v)]
set_lang(element, v) == [element EXCEPT !.lang = Some(v)]

\* the values a context field holds: a Python int or a Python str
PyInt(n) == [int |-> n]
PyStr(t) == [str |-> t]

-----------------------------------------------------------------------------
(* Attribute accessors *)

get_id(ttml_element) == AttribGet(ttml_element.attrib, XMLID_ATTRIB_QNAME)

get_xml_lang(ttml_element) == AttribGet(ttml_element.attrib, XMLLANG_ATTRIB_QNAME)

\* _get_xml_space: [ret, log]
get_xml_space(ttml_element, lg) ==
  LET sp == AttribGet(ttml_element.attrib, XMLSPACE_ATTRIB_QNAME) IN
  IF sp # None /\ sp[1] \notin WhiteSpaceHandling_members
  THEN [ret |-> None, log |-> Append(lg, "Bad xml:space value")]
  ELSE [ret |-> sp, log |-> lg]

\* the branch of _process_cell_resolution taken when the text does not match
cell_resolution_no_match(lg) == Append(lg, "invalid cellResolution syntax")

\* _process_cell_resolution once the text was matched
cell_resolution_matched(columns, rows, lg, m) ==
  IF m # None
  THEN [cr_columns |-> PyStr(m[1].g1), cr_rows |-> PyStr(m[1].g2), log |-> lg]
  ELSE [cr_columns |-> columns, cr_rows |-> rows,
        log |-> cell_resolution_no_match(lg)]

\* _process_cell_resolution: [cr_columns, cr_rows, log]
process_cell_resolution(columns, rows, lg, ttml_element) ==
  IF AttribGet(ttml_element.attrib, CELLRESOLUTION_ATTRIB_QNAME) = None
  THEN [cr_columns |-> columns, cr_rows |-> rows, log |-> lg]
  ELSE cell_resolution_matched(
         columns, rows, lg,
         CELL_RESOLUTION_RE_match(ttml_element.attrib[CELLRESOLUTION_ATTRIB_QNAME]))

-----------------------------------------------------------------------------
(* Style properties and the region attribute *)

RECURSIVE style_loop(_, _, _)

\* set_style with what extract returned, or its failure
style_set(names, ttml_element, element, attr, x) ==
  IF x.raised THEN [element |-> element, raised |-> TRUE]
  ELSE style_loop(names \ {attr}, ttml_element,
                  set_style(element, ModelProp(attr), x.value[1]))

\* one attribute of the loop of _process_style_properties
style_attr(names, ttml_element, element, attr) ==
  IF attr \notin BY_QNAME_keys
  THEN style_loop(names \ {attr}, ttml_element, element)
  ELSE style_set(names, ttml_element, element, attr,
                 PropExtract(attr, ttml_element.attrib[attr]))

\* the loop of _process_style_properties over the attributes in 'names'
style_loop(names, ttml_element, element) ==
  IF names = {} THEN [element |-> element, raised |-> FALSE]
  ELSE style_attr(names, ttml_element, element, CHOOSE a \in names : TRUE)

\* a reader that skips a style attribute it cannot parse
RECURSIVE style_loop_skipping(_, _, _)
style_loop_skipping(names, ttml_element, element) ==
  IF names = {} THEN [element |-> element, raised |-> FALSE]
  ELSE LET attr == CHOOSE a \in names : TRUE IN
       IF attr \notin BY_QNAME_keys
       THEN style_loop_skipping(names \ {attr}, ttml_element, element)
       ELSE LET x == PropExtract(attr, ttml_element.attrib[attr]) IN
            style_loop_skipping(
              names \ {attr}, ttml_element,
              IF x.raised THEN element
              ELSE set_style(element, ModelProp(attr), x.value[1]))
process_style_properties_skipping(ttml_element, element) ==
  style_loop_skipping(DOMAIN ttml_element.attrib, ttml_element, element)

\* _process_style_properties: [element, raised]
process_style_properties(ttml_element, element) ==
  style_loop(DOMAIN ttml_element.attrib, ttml_element, element)

\* a reader that forgets to assign the region it found
process_region_property_unassigned(ctxdoc, ttml_element, element, lg) ==
  LET rid == AttribGet(ttml_element.attrib, REGION_ATTRIB_NAME) IN
  IF rid = None \/ get_region(ctxdoc, rid[1]) # None
  THEN [element |-> element, log |-> lg]
  ELSE [element |-> element,
        log |-> Append(lg, "Element references unknown region")]

\* a reader that creates the region an element refers to when it is not yet known
process_region_property_deferred(ctxdoc, ttml_element, element, lg) ==
  LET rid == AttribGet(ttml_element.attrib, REGION_ATTRIB_NAME) IN
  IF rid = None THEN [element |-> element, log |-> lg]
  ELSE LET r == get_region(ctxdoc, rid[1]) IN
       [element |-> set_region(element, IF r # None THEN r[1] ELSE Region_new(rid[1])),
        log |-> lg]

\* _process_region_property: [element, log]
process_region_property(ctxdoc, ttml_element, element, lg) ==
  LET rid == AttribGet(ttml_element.attrib, REGION_ATTRIB_NAME) IN
  IF rid = None THEN [element |-> element, log |-> lg]
  ELSE LET r == get_region(ctxdoc, rid[1]) IN
       IF r # None THEN [element |-> set_region(element, r[1]), log |-> lg]
       ELSE [element |-> element,
             log |-> Append(lg, "Element references unknown region")]

-----------------------------------------------------------------------------
(* Content elements *)

\* a reader that keeps an element of an unknown tag as a container
content_class_promoting(tag) ==
  IF tag = BODY_ELEMENT_QNAME THEN Some("Body")
  ELSE IF tag = P_ELEMENT_QNAME THEN Some("P")
  ELSE Some("Div")

\* the dispatch on the tag of _process_content_element: None or the class
content_class(tag) ==
  IF tag = BODY_ELEMENT_QNAME THEN Some("Body")
  ELSE IF tag = DIV_ELEMENT_QNAME THEN Some("Div")
  ELSE IF tag = P_ELEMENT_QNAME THEN Some("P")
  ELSE None

RECURSIVE process_content_element(_, _, _, _, _)
RECURSIVE content_loop(_, _, _, _, _, _, _)

\* what a builder returns once the styles are extracted: [ret, log, raised]
styled(lg, st) ==
  IF st.raised THEN [ret |-> None, log |-> lg, raised |-> TRUE]
  ELSE [ret |-> Some(st.element), log |-> lg, raised |-> FALSE]

\* _process_content_element from "process styles" on
content_styles(ttml_element, rp) ==
  styled(rp.log, process_style_properties(ttml_element, rp.element))

\* _process_content_element from "process layout" on, after the loop
content_region(ctxdoc, ttml_element, kids) ==
  IF kids.raised THEN [ret |-> None, log |-> kids.log, raised |-> TRUE]
  ELSE content_styles(
         ttml_element,
         process_region_property(ctxdoc, ttml_element, kids.element, kids.log))

\* the body of the loop once child k has returned c
content_child(ctxdoc, inherited_space, inherited_lang, ttml_element, k, element, c) ==
  IF c.raised THEN [element |-> element, log |-> c.log, raised |-> TRUE]
  ELSE content_loop(ctxdoc, c.log, inherited_space, inherited_lang, ttml_element,
                    k + 1,
                    IF c.ret # None THEN push_child(element, c.ret[1]) ELSE element)

\* the loop over the children of a content element, from child k: [element, log, raised]
content_loop(ctxdoc, lg, inherited_space, inherited_lang, ttml_element, k, element) ==
  IF k > Len(ttml_element.children)
  THEN [element |-> element, log |-> lg, raised |-> FALSE]
  ELSE content_child(
         ctxdoc, inherited_space, inherited_lang, ttml_element, k, element,
         process_content_element(ctxdoc, lg, inherited_space, inherited_lang,
                                 ttml_element.children[k]))

\* _process_content_element: [ret, log, raised]
process_content_element(ctxdoc, lg, inherited_space, inherited_lang, ttml_element) ==
  IF content_class(ttml_element.tag) = None
  THEN [ret |-> None, log |-> lg, raised |-> FALSE]
  ELSE content_region(
         ctxdoc, ttml_element,
         content_loop(ctxdoc, lg, inherited_space, inherited_lang, ttml_element, 1,
                      ContentElement_new(content_class(ttml_element.tag)[1])))

-----------------------------------------------------------------------------
(* Head, layout and regions *)

\* a reader for which a region without an id is fatal
process_region_element_fatal(lg, inherited_space, inherited_lang, ttml_element) ==
  LET rid == get_id(ttml_element)
      st == process_style_properties(
              ttml_element,
              set_lang(set_space(Region_new(IF rid = None THEN "" ELSE rid[1]),
                                 PyOr(get_xml_space(ttml_element, lg).ret,
                                      inherited_space)),
                       PyOr(get_xml_lang(ttml_element), inherited_lang)))
  IN IF rid = None \/ st.raised
     THEN [ret |-> None, log |-> Append(lg, "All regions must have an id"),
           raised |-> TRUE]
     ELSE [ret |-> Some(st.element), log |-> get_xml_space(ttml_element, lg).log,
           raised |-> FALSE]

\* a reader that creates a region without an id under the empty id
process_region_element_anonymous(lg, inherited_space, inherited_lang, ttml_element) ==
  LET rid == get_id(ttml_element)
      sp == get_xml_space(ttml_element, lg)
      st == process_style_properties(
              ttml_element,
              set_lang(set_space(Region_new(IF rid = None THEN "" ELSE rid[1]),
                                 PyOr(sp.ret, inherited_space)),
                       PyOr(get_xml_lang(ttml_element), inherited_lang)))
  IN IF st.raised THEN [ret |-> None, log |-> sp.log, raised |-> TRUE]
     ELSE [ret |-> Some(st.element),
           log |-> IF rid = None THEN Append(sp.log, "All regions must have an id")
                   ELSE sp.log,
           raised |-> FALSE]

\* _process_region_element from "create region object" on
region_with_id(rid, sp, inherited_space, inherited_lang, ttml_element) ==
  styled(sp.log,
         process_style_properties(
           ttml_element,
           set_lang(set_space(Region_new(rid), PyOr(sp.ret, inherited_space)),
                    PyOr(get_xml_lang(ttml_element), inherited_lang))))

\* _process_region_element: [ret, log, raised]
process_region_element(lg, inherited_space, inherited_lang, ttml_element) ==
  IF get_id(ttml_element) = None
  THEN [ret |-> None, log |-> Append(lg, "All regions must have an id"),
        raised |-> FALSE]
  ELSE region_with_id(get_id(ttml_element)[1], get_xml_space(ttml_element, lg),
                      inherited_space, inherited_lang, ttml_element)

RECURSIVE layout_loop(_, _, _, _, _, _)

\* the region branch of the loop once the region was read: put_region
layout_put(ctxdoc, inherited_space, inherited_lang, ttml_element, k, r) ==
  IF r.raised THEN [doc |-> ctxdoc, log |-> r.log, raised |-> TRUE]
  ELSE layout_loop(IF r.ret # None THEN put_region(ctxdoc, r.ret[1]) ELSE ctxdoc,
                   r.log, inherited_space, inherited_lang, ttml_element, k + 1)

\* the region branch of the loop; sp is _get_xml_space of the layout
layout_region(ctxdoc, sp, inherited_space, inherited_lang, ttml_element, k) ==
  layout_put(ctxdoc, inherited_space, inherited_lang, ttml_element, k,
             process_region_element(
               sp.log,
               PyOr(sp.ret, inherited_space),
               PyOr(get_xml_lang(ttml_element), inherited_lang),
               ttml_element.children[k]))

\* the loop of _process_layout_element from child k: [doc, log, raised]
layout_loop(ctxdoc, lg, inherited_space, inherited_lang, ttml_element, k) ==
  IF k > Len(ttml_element.children)
  THEN [doc |-> ctxdoc, log |-> lg, raised |-> FALSE]
  ELSE IF ttml_element.children[k].tag = REGION_ELEMENT_QNAME
  THEN layout_region(ctxdoc, get_xml_space(ttml_element, lg), inherited_space,
                     inherited_lang, ttml_element, k)
  ELSE layout_loop(ctxdoc, Append(lg, "Unexpected child of head element"),
                   inherited_space, inherited_lang, ttml_element, k + 1)

\* _process_layout_element: [doc, log, raised]
process_layout_element(ctxdoc, lg, inherited_space, inherited_lang, ttml_element) ==
  layout_loop(ctxdoc, lg, inherited_space, inherited_lang, ttml_element, 1)

RECURSIVE head_loop(_, _, _, _, _, _, _)

\* the layout branch of the loop once the layout has returned l
head_next(inherited_space, inherited_lang, ttml_element, k, l) ==
  IF l.raised THEN l
  ELSE head_loop(l.doc, l.log, inherited_space, inherited_lang, ttml_element,
                 k + 1, TRUE)

\* the first layout of the head; sp is _get_xml_space of the head
head_layout(ctxdoc, sp, inherited_space, inherited_lang, ttml_element, k) ==
  head_next(inherited_space, inherited_lang, ttml_element, k,
            process_layout_element(
              ctxdoc, sp.log,
              PyOr(sp.ret, inherited_space),
              PyOr(get_xml_lang(ttml_element), inherited_lang),
              ttml_element.children[k]))

\* the loop of _process_head_element from child k: [doc, log, raised]
head_loop(ctxdoc, lg, inherited_space, inherited_lang, ttml_element, k, has_layout) ==
  IF k > Len(ttml_element.children)
  THEN [doc |-> ctxdoc, log |-> lg, raised |-> FALSE]
  ELSE IF ttml_element.children[k].tag # LAYOUT_ELEMENT_QNAME
  THEN head_loop(ctxdoc, Append(lg, "Unexpected child of head element"),
                 inherited_space, inherited_lang, ttml_element, k + 1, has_layout)
  ELSE IF has_layout
  THEN head_loop(ctxdoc, Append(lg, "Multiple layout elements"),
                 inherited_space, inherited_lang, ttml_element, k + 1, has_layout)
  ELSE head_layout(ctxdoc, get_xml_space(ttml_element, lg), inherited_space,
                   inherited_lang, ttml_element, k)

\* _process_head_element: [doc, log, raised]
process_head_element(ctxdoc, lg, inherited_space, inherited_lang, ttml_element) ==
  head_loop(ctxdoc, lg, inherited_space, inherited_lang, ttml_element, 1, FALSE)

-----------------------------------------------------------------------------
(* The input trees *)

Element(tag, attrib, children) == [tag |-> tag, attrib |-> attrib, children |-> children]

LH_1_2em == <<"1", ".", "2", "e", "m">>
LH_abc == <<"a", "b", "c">>
CR_40_24 == <<"4", "0", " ", "2", "4">>
CR_bad == <<"b", "a", "d">>

LHAlphabet == {"1", ".", "-", "c", "e", "m"}
CRAlphabet == {"1", " ", "x"}
LHTexts == {LH_1_2em, LH_abc} \cup Texts(LHAlphabet, MaxLHLen)
CRTexts == {CR_40_24, CR_bad} \cup Texts(CRAlphabet, MaxCRLen)

\* the attribute dicts an element of each tag is given in the structural inputs
AttribsOf(tag) ==
  IF tag = REGION_ELEMENT_QNAME
  THEN {EmptyDict,
        (XMLID_ATTRIB_QNAME :> "r1"),
        (XMLID_ATTRIB_QNAME :> "r2"),
        (XMLID_ATTRIB_QNAME :> "r1") @@ (LINEHEIGHT_QNAME :> LH_abc),
        (XMLID_ATTRIB_QNAME :> "r1") @@ (XMLLANG_ATTRIB_QNAME :> "fr"),
        (LINEHEIGHT_QNAME :> LH_abc)}
  ELSE IF tag = P_ELEMENT_QNAME
  THEN {EmptyDict,
        (REGION_ATTRIB_NAME :> "r1"),
        (LINEHEIGHT_QNAME :> LH_abc)}
  ELSE IF tag = BODY_ELEMENT_QNAME
  THEN {EmptyDict, (REGION_ATTRIB_NAME :> "r1")}
  ELSE IF tag = SPAN_ELEMENT_QNAME
  THEN {EmptyDict, (LINEHEIGHT_QNAME :> LH_abc)}
  ELSE {EmptyDict}

\* the tags generated below a parent of each tag
TagsBelow(parent) ==
  IF parent = TT_ELEMENT_QNAME
  THEN {HEAD_ELEMENT_QNAME, BODY_ELEMENT_QNAME, OTHER_ELEMENT_QNAME}
  ELSE IF parent = HEAD_ELEMENT_QNAME
  THEN {LAYOUT_ELEMENT_QNAME, OTHER_ELEMENT_QNAME}
  ELSE IF parent = LAYOUT_ELEMENT_QNAME
  THEN {REGION_ELEMENT_QNAME, OTHER_ELEMENT_QNAME}
  ELSE IF parent \in {BODY_ELEMENT_QNAME, DIV_ELEMENT_QNAME, P_ELEMENT_QNAME,
                      SPAN_ELEMENT_QNAME, "content"}
  THEN {DIV_ELEMENT_QNAME, P_ELEMENT_QNAME, SPAN_ELEMENT_QNAME, OTHER_ELEMENT_QNAME}
  ELSE {}

\* an unknown element has generated children only inside the content tree
Below(parent, tag) ==
  IF tag = OTHER_ELEMENT_QNAME
  THEN IF parent \in {TT_ELEMENT_QNAME, HEAD_ELEMENT_QNAME, LAYOUT_ELEMENT_QNAME}
       THEN "none" ELSE "content"
  ELSE tag

\* the sequences of elements below 'parent' that hold exactly n elements in all
RECURSIVE ForestN(_, _)
ForestN(parent, n) ==
  IF n = 0 THEN {<<>>}
  ELSE UNION {
         {<<Element(tag, a, c)>> \o rest :
            a \in AttribsOf(tag), c \in ForestN(Below(parent, tag), k - 1),
            rest \in ForestN(parent, n - k)} :
         k \in 1..n, tag \in TagsBelow(parent)}

Region_r1 == Element(REGION_ELEMENT_QNAME, (XMLID_ATTRIB_QNAME :> "r1"), <<>>)
Region_r2 == Element(REGION_ELEMENT_QNAME, (XMLID_ATTRIB_QNAME :> "r2"), <<>>)
Head_r1 ==
  Element(HEAD_ELEMENT_QNAME, EmptyDict,
          <<Element(LAYOUT_ELEMENT_QNAME, EmptyDict, <<Region_r1>>)>>)
Head_r2 ==
  Element(HEAD_ELEMENT_QNAME, EmptyDict,
          <<Element(LAYOUT_ELEMENT_QNAME, EmptyDict, <<Region_r2>>)>>)
Body_p_r1 ==
  Element(BODY_ELEMENT_QNAME, EmptyDict,
          <<Element(P_ELEMENT_QNAME, (REGION_ATTRIB_NAME :> "r1"), <<>>)>>)
Body_lang ==
  Element(BODY_ELEMENT_QNAME, (XMLLANG_ATTRIB_QNAME :> "fr"),
          <<Element(P_ELEMENT_QNAME, EmptyDict, <<>>),
            Element(P_ELEMENT_QNAME, (XMLLANG_ATTRIB_QNAME :> "de")
                                       @@ (XMLSPACE_ATTRIB_QNAME :> "preserve"),
                    <<>>)>>)
Other == Element(OTHER_ELEMENT_QNAME, EmptyDict, <<>>)

\* the sequences over S of length at most n
RECURSIVE SeqsUpTo(_, _)
SeqsUpTo(S, n) ==
  IF n = 0 THEN {<<>>}
  ELSE LET shorter == SeqsUpTo(S, n - 1)
       IN shorter \cup {Append(q, e) : q \in shorter, e \in S}

RootAttribs == {EmptyDict, (XMLLANG_ATTRIB_QNAME :> "en")}

\* inputs that vary the order and the number of the children of the root
OrderDocs ==
  {Element(TT_ELEMENT_QNAME, a, c) :
     a \in RootAttribs,
     c \in SeqsUpTo({Head_r1, Head_r2, Body_p_r1, Body_lang, Other}, MaxTop)}

\* inputs that vary the head, before or after a body that refers to r1
HeadDocs ==
  {Element(TT_ELEMENT_QNAME, (XMLLANG_ATTRIB_QNAME :> "en"), c) :
     c \in UNION {
       {<<Element(HEAD_ELEMENT_QNAME, EmptyDict, f)>>,
        <<Element(HEAD_ELEMENT_QNAME, EmptyDict, f), Body_p_r1>>,
        <<Body_p_r1, Element(HEAD_ELEMENT_QNAME, EmptyDict, f)>>} :
       f \in UNION {ForestN(HEAD_ELEMENT_QNAME, n) : n \in 0..MaxHeadNodes}}}

\* inputs that vary the body, after or before a head that defines r1
BodyDocs ==
  {Element(TT_ELEMENT_QNAME, (XMLLANG_ATTRIB_QNAME :> "en"), c) :
     c \in UNION {
       {<<Head_r1, Element(BODY_ELEMENT_QNAME, a, f)>>,
        <<Element(BODY_ELEMENT_QNAME, a, f), Head_r1>>} :
       a \in AttribsOf(BODY_ELEMENT_QNAME),
       f \in UNION {ForestN(BODY_ELEMENT_QNAME, n) : n \in 0..MaxBodyNodes}}}

\* inputs that vary the root element: its tag and its attributes
RootDocs ==
  {Element(tag, a, c) :
     tag \in {TT_ELEMENT_QNAME, OTHER_ELEMENT_QNAME},
     a \in {(k :> t) : k \in {CELLRESOLUTION_ATTRIB_QNAME, TTP_CELLRESOLUTION_CLARK},
                       t \in CRTexts}
           \cup {EmptyDict,
                 (XMLSPACE_ATTRIB_QNAME :> "preserve"),
                 (XMLSPACE_ATTRIB_QNAME :> "bad"),
                 (XMLSPACE_ATTRIB_QNAME :> "preserve") @@ (XMLLANG_ATTRIB_QNAME :> "en")},
     c \in {<<>>, <<Head_r1, Body_p_r1>>}}

\* inputs that vary the text of tts:lineHeight on a p and on a region
StyleDocs ==
  {Element(TT_ELEMENT_QNAME, (XMLLANG_ATTRIB_QNAME :> "en"), c) :
     c \in UNION {
       {<<Element(BODY_ELEMENT_QNAME, EmptyDict,
                  <<Element(P_ELEMENT_QNAME, (LINEHEIGHT_QNAME :> t), <<>>)>>)>>,
        <<Element(HEAD_ELEMENT_QNAME, EmptyDict,
                  <<Element(LAYOUT_ELEMENT_QNAME, EmptyDict,
                            <<Element(REGION_ELEMENT_QNAME,
                                      (XMLID_ATTRIB_QNAME :> "r1")
                                        @@ (LINEHEIGHT_QNAME :> t),
                                      <<>>)>>)>>)>>} :
       t \in LHTexts}}

Inputs == OrderDocs \cup HeadDocs \cup BodyDocs \cup RootDocs \cup StyleDocs

-----------------------------------------------------------------------------
(* to_model, one step per child of the root *)

Init ==
  /\ xml_tree \in Inputs
  /\ pc = "start"
  /\ doc = None
  /\ cr_columns = PyInt(32)
  /\ cr_rows = PyInt(15)
  /\ space = None
  /\ lang = None
  /\ has_body = FALSE
  /\ has_head = FALSE
  /\ idx = 0
  /\ log = <<>>
  /\ result = "running"

\* to_model when the root is not tt
RootMismatch ==
  /\ pc = "start"
  /\ xml_tree.tag # TT_ELEMENT_QNAME
  /\ log' = Append(log, "A tt element is not the root element")
  /\ result' = "None"
  /\ pc' = "done"
  /\ UNCHANGED <<xml_tree, doc, cr_columns, cr_rows, space, lang, has_body,
                 has_head, idx>>

\* the locals and the context once xml:space, xml:lang and the parameters are read
TTRead(sp, lgv, cr) ==
  /\ doc' = Some(Document_new)
  /\ space' = Some(PyOr(sp.ret, WhiteSpaceHandling_DEFAULT))
  /\ lang' = Some(IF lgv = None THEN "" ELSE lgv[1])
  /\ cr_columns' = cr.cr_columns
  /\ cr_rows' = cr.cr_rows
  /\ log' = cr.log

\* the warning of _process_tt_element when xml:lang is absent
lang_warning(lg, lgv) ==
  IF lgv = None THEN Append(lg, "xml:lang not specified on tt") ELSE lg

\* to_model when the root is tt: _process_tt_element up to its loop
EnterTT ==
  /\ pc = "start"
  /\ xml_tree.tag = TT_ELEMENT_QNAME
  /\ TTRead(get_xml_space(xml_tree, log), get_xml_lang(xml_tree),
            process_cell_resolution(
              cr_columns, cr_rows,
              lang_warning(get_xml_space(xml_tree, log).log, get_xml_lang(xml_tree)),
              xml_tree))
  /\ has_body' = FALSE
  /\ has_head' = FALSE
  /\ idx' = 1
  /\ pc' = "children"
  /\ UNCHANGED <<xml_tree, result>>

AtChild == pc = "children" /\ idx <= Len(xml_tree.children)
child_element == xml_tree.children[idx]

\* a failure leaves _process_tt_element and to_model
Raise(lg) ==
  /\ log' = lg
  /\ result' = "Exception"
  /\ pc' = "done"
  /\ UNCHANGED <<xml_tree, doc, cr_columns, cr_rows, space, lang, has_body,
                 has_head, idx>>

\* set_body with what _process_content_element returned, or its failure
TTBodyBuilt(b) ==
  IF b.raised THEN Raise(b.log)
  ELSE /\ doc' = Some(set_body(doc[1], b.ret))
       /\ has_body' = TRUE
       /\ log' = b.log
       /\ idx' = idx + 1
       /\ UNCHANGED <<xml_tree, pc, cr_columns, cr_rows, space, lang, has_head,
                      result>>

\* the body branch of the loop of _process_tt_element
TTBody ==
  /\ AtChild
  /\ child_element.tag = BODY_ELEMENT_QNAME
  /\ IF ~has_body
     THEN TTBodyBuilt(process_content_element(doc[1], log, space[1], lang[1],
                                              child_element))
     ELSE /\ log' = Append(log, "More than one body element present")
          /\ idx' = idx + 1
          /\ UNCHANGED <<xml_tree, pc, doc, cr_columns, cr_rows, space, lang,
                         has_body, has_head, result>>

\* the head was processed and returned h, or failed
TTHeadDone(h) ==
  IF h.raised THEN Raise(h.log)
  ELSE /\ doc' = Some(h.doc)
       /\ has_head' = TRUE
       /\ log' = h.log
       /\ idx' = idx + 1
       /\ UNCHANGED <<xml_tree, pc, cr_columns, cr_rows, space, lang, has_body,
                      result>>

\* a reader that processes every head it meets
TTHead_every ==
  /\ AtChild
  /\ child_element.tag = HEAD_ELEMENT_QNAME
  /\ LET h == process_head_element(doc[1], log, space[1], lang[1], child_element)
     IN IF h.raised THEN Raise(h.log)
        ELSE /\ doc' = Some(h.doc)
             /\ has_head' = TRUE
             /\ log' = IF has_head
                       THEN Append(h.log, "More than one head element present")
                       ELSE h.log
             /\ idx' = idx + 1
             /\ UNCHANGED <<xml_tree, pc, cr_columns, cr_rows, space, lang,
                            has_body, result>>

\* the head branch of the loop of _process_tt_element
TTHead ==
  /\ AtChild
  /\ child_element.tag # BODY_ELEMENT_QNAME
  /\ child_element.tag = HEAD_ELEMENT_QNAME
  /\ IF ~has_head
     THEN TTHeadDone(process_head_element(doc[1], log, space[1], lang[1],
                                          child_element))
     ELSE /\ log' = Append(log, "More than one head element present")
          /\ idx' = idx + 1
          /\ UNCHANGED <<xml_tree, pc, doc, cr_columns, cr_rows, space, lang,
                         has_body, has_head, result>>

\* a child of tt that is neither body nor head: the loop goes on
TTSkip ==
  /\ AtChild
  /\ child_element.tag \notin {BODY_ELEMENT_QNAME, HEAD_ELEMENT_QNAME}
  /\ idx' = idx + 1
  /\ UNCHANGED <<xml_tree, pc, doc, cr_columns, cr_rows, space, lang, has_body,
                 has_head, log, result>>

\* the loop is over: to_model returns context.doc
Return ==
  /\ pc = "children"
  /\ idx > Len(xml_tree.children)
  /\ result' = "Document"
  /\ pc' = "done"
  /\ UNCHANGED <<xml_tree, doc, cr_columns, cr_rows, space, lang, has_body,
                 has_head, idx, log>>

Next == RootMismatch \/ EnterTT \/ TTBody \/ TTHead \/ TTSkip \/ Return

Spec == Init /\ [][Next]_vars

-----------------------------------------------------------------------------
(* What the claims speak of, read off the input tree *)

Kids == xml_tree.children
IdxOf(seq, tag) == {k \in 1..Len(seq) : seq[k].tag = tag}
Least(S) == CHOOSE k \in S : \A j \in S : k <= j

HeadIdx == IdxOf(Kids, HEAD_ELEMENT_QNAME)
BodyIdx == IdxOf(Kids, BODY_ELEMENT_QNAME)
FirstHead == Kids[Least(HeadIdx)]
FirstBody == Kids[Least(BodyIdx)]
HeadBeforeBody == HeadIdx # {} /\ BodyIdx # {} /\ Least(HeadIdx) < Least(BodyIdx)
BodyBeforeHead == BodyIdx # {} /\ (HeadIdx = {} \/ Least(BodyIdx) < Least(HeadIdx))

\* the children of the first layout of the first head
LayoutIdx == IF HeadIdx = {} THEN {} ELSE IdxOf(FirstHead.children, LAYOUT_ELEMENT_QNAME)
FirstLayoutKids ==
  IF LayoutIdx = {} THEN <<>> ELSE FirstHead.children[Least(LayoutIdx)].children

IsRegionWithId(e) == e.tag = REGION_ELEMENT_QNAME /\ XMLID_ATTRIB_QNAME \in DOMAIN e.attrib
IsRegionWithoutId(e) ==
  e.tag = REGION_ELEMENT_QNAME /\ XMLID_ATTRIB_QNAME \notin DOMAIN e.attrib
AcceptedRegions == SelectSeq(FirstLayoutKids, IsRegionWithId)
HeadRegionIds ==
  {AcceptedRegions[k].attrib[XMLID_ATTRIB_QNAME] : k \in 1..Len(AcceptedRegions)}

\* the children of a content element that the walker turns into nodes
IsKept(e) == content_class(e.tag) # None
Kept(e) == SelectSeq(e.children, IsKept)

\* the content elements the walker processes below and including e
RECURSIVE ProcessedContent(_)
ProcessedContent(e) ==
  IF ~IsKept(e) THEN {}
  ELSE {e} \cup UNION {ProcessedContent(e.children[k]) : k \in 1..Len(e.children)}

\* the elements whose style attributes the walker extracts
ProcessedElements ==
  (IF BodyIdx = {} THEN {} ELSE ProcessedContent(FirstBody))
    \cup {AcceptedRegions[k] : k \in 1..Len(AcceptedRegions)}

CountMsg(msg) == Cardinality({k \in 1..Len(log) : log[k] = msg})

Returned == result = "Document"
BodyNode == doc[1].body[1]
BodyDone == pc # "start" /\ has_body

\* the grammar of a length: an optionally signed decimal number, then a unit
DecimalNumber(t) ==
  LET b == IF t # <<>> /\ t[1] \in {"+", "-"} THEN Tail_(t, 2) ELSE t IN
  \E i \in 0..Len(b) :
    /\ AllDigits(SubSeq(b, 1, i))
    /\ \/ i > 0 /\ i = Len(b)
       \/ /\ i + 1 < Len(b)
          /\ b[i + 1] = "."
          /\ AllDigits(Tail_(b, i + 2))
LengthSplits(t) ==
  {<<n, k>> \in (0..Len(t)) \X (1..Len(LengthUnits)) :
     DecimalNumber(SubSeq(t, 1, n)) /\ Tail_(t, n + 1) = UnitText(LengthUnits[k])}
LengthGrammar(t) == LengthSplits(t) # {}
LengthOf(t) ==
  LET nk == CHOOSE x \in LengthSplits(t) : TRUE
  IN LengthType(PyFloat(SubSeq(t, 1, nk[1]))[1], LengthUnits[nk[2]])

HasLineHeight(e) == LINEHEIGHT_QNAME \in DOMAIN e.attrib
Malformed(e) == HasLineHeight(e) /\ ~LengthGrammar(e.attrib[LINEHEIGHT_QNAME])
MalformedProcessed == \E e \in ProcessedElements : Malformed(e)

-----------------------------------------------------------------------------
(* Region references *)

HasRegionRef(e) == REGION_ATTRIB_NAME \in DOMAIN e.attrib

\* every node below n, n included, that comes from an element referring to a
\* region of ids has that region of the document assigned
RECURSIVE RefsResolved(_, _, _)
RefsResolved(e, n, ids) ==
  /\ (HasRegionRef(e) /\ e.attrib[REGION_ATTRIB_NAME] \in ids)
       => /\ e.attrib[REGION_ATTRIB_NAME] \in DOMAIN doc[1].regions
          /\ n.region = Some(doc[1].regions[e.attrib[REGION_ATTRIB_NAME]])
          /\ n.region[1].id = e.attrib[REGION_ATTRIB_NAME]
  /\ Len(Kept(e)) = Len(n.children)
  /\ \A k \in 1..Len(n.children) : RefsResolved(Kept(e)[k], n.children[k], ids)

\* C1: when the head precedes the body and its layout holds a region with id r,
\* every node of the returned Document that comes from an element (a p in
\* particular) carrying region="r" has its region assigned to the region r of the
\* Document's region map.
C1_RegionResolved ==
  (Returned /\ HeadBeforeBody) => RefsResolved(FirstBody, BodyNode, HeadRegionIds)

C1_Witness ==
  /\ Returned
  /\ Kids = <<Head_r1, Body_p_r1>>
  /\ BodyNode.children[1].kind = "P"
  /\ BodyNode.children[1].region = Some(doc[1].regions["r1"])

\* no node below n, n included, has a region
RECURSIVE NoRegionAssigned(_)
NoRegionAssigned(n) ==
  /\ n.region = None
  /\ \A k \in 1..Len(n.children) : NoRegionAssigned(n.children[k])

\* the number of processed elements below e, e included, that refer to a region
RECURSIVE RegionRefs(_)
RECURSIVE RegionRefsFrom(_, _)
RegionRefsFrom(seq, k) ==
  IF k > Len(seq) THEN 0 ELSE RegionRefs(seq[k]) + RegionRefsFrom(seq, k + 1)
RegionRefs(e) ==
  IF ~IsKept(e) THEN 0
  ELSE (IF HasRegionRef(e) THEN 1 ELSE 0) + RegionRefsFrom(e.children, 1)

\* C2: a region reference is resolved when the element is visited and never again:
\* when the body precedes the head, from the moment the body is built on, and still
\* when to_model returns with the head's regions in the map, no node has a region
\* and one warning was logged for each reference.
C2_ResolvedOnce ==
  (BodyDone /\ BodyBeforeHead) =>
     /\ NoRegionAssigned(BodyNode)
     /\ CountMsg("Element references unknown region") = RegionRefs(FirstBody)

C2_Witness ==
  /\ Returned
  /\ Kids = <<Body_p_r1, Head_r1>>
  /\ "r1" \in DOMAIN doc[1].regions
  /\ BodyNode.children[1].region = None
  /\ CountMsg("Element references unknown region") = 1

-----------------------------------------------------------------------------
(* Style values *)

LineHeightSet(e, styles) ==
  IF HasLineHeight(e)
  THEN /\ DOMAIN styles = {"LineHeight"}
       /\ LengthGrammar(e.attrib[LINEHEIGHT_QNAME])
       /\ styles["LineHeight"] = LengthOf(e.attrib[LINEHEIGHT_QNAME])
  ELSE styles = EmptyDict

RECURSIVE StylesSet(_, _)
StylesSet(e, n) ==
  /\ LineHeightSet(e, n.styles)
  /\ Len(Kept(e)) = Len(n.children)
  /\ \A k \in 1..Len(n.children) : StylesSet(Kept(e)[k], n.children[k])

\* the last accepted region element with id rid: the one the region map keeps
LastRegion(rid) ==
  AcceptedRegions[CHOOSE k \in 1..Len(AcceptedRegions) :
    /\ AcceptedRegions[k].attrib[XMLID_ATTRIB_QNAME] = rid
    /\ \A j \in (k + 1)..Len(AcceptedRegions) :
         AcceptedRegions[j].attrib[XMLID_ATTRIB_QNAME] # rid]

C3_WitnessConforming ==
  /\ Returned
  /\ Kids = <<Element(BODY_ELEMENT_QNAME, EmptyDict,
                      <<Element(P_ELEMENT_QNAME, (LINEHEIGHT_QNAME :> LH_1_2em), <<>>)>>)>>
  /\ BodyNode.children[1].styles["LineHeight"] =
       LengthType([num |-> 12, den |-> 10], "em")

-----------------------------------------------------------------------------
(* Singleton elements *)

Extra(S) == IF S = {} THEN 0 ELSE Cardinality(S) - 1

\* node n has the shape the walker gives to element e
RECURSIVE BuiltFrom(_, _)
BuiltFrom(e, n) ==
  /\ Some(n.kind) = content_class(e.tag)
  /\ Len(Kept(e)) = Len(n.children)
  /\ \A k \in 1..Len(n.children) : BuiltFrom(Kept(e)[k], n.children[k])

\* C4: the first head, the first body and the first layout of that head win: the
\* returned Document holds the regions of that layout only and the body built
\* from the first body, and each later head, body or layout is logged as an error.
C4_FirstWins ==
  Returned =>
    /\ DOMAIN doc[1].regions = HeadRegionIds
    /\ IF BodyIdx = {} THEN doc[1].body = None
       ELSE doc[1].body # None /\ BuiltFrom(FirstBody, BodyNode)
    /\ CountMsg("More than one head element present") = Extra(HeadIdx)
    /\ CountMsg("More than one body element present") = Extra(BodyIdx)
    /\ CountMsg("Multiple layout elements") = Extra(LayoutIdx)

C4_Witness ==
  /\ Returned
  /\ Kids = <<Head_r1, Head_r2, Body_p_r1>>
  /\ DOMAIN doc[1].regions = {"r1"}
  /\ CountMsg("More than one head element present") = 1

-----------------------------------------------------------------------------
(* Unrecognized elements *)

\* the tags of the content vocabulary
ContentTags ==
  {BODY_ELEMENT_QNAME, DIV_ELEMENT_QNAME, P_ELEMENT_QNAME, SPAN_ELEMENT_QNAME}
HasContentTag(e) == e.tag \in ContentTags

\* e without the elements of an unrecognized tag and what is below them
RECURSIVE Pruned(_)
Pruned(e) ==
  LET keep == SelectSeq(e.children, HasContentTag)
  IN [e EXCEPT !.children = [k \in 1..Len(keep) |-> Pruned(keep[k])]]

\* the region map the walker saw when it built the body
RegionsAtBody == IF HeadBeforeBody THEN doc[1].regions ELSE EmptyDict

\* C5: an element with an unrecognized tag contributes nothing, neither itself nor
\* what is below it: the body the walker builds is the body it builds from the
\* same tree with these elements and all their descendants removed.
C5_UnknownDropped ==
  BodyDone =>
    doc[1].body =
      process_content_element([regions |-> RegionsAtBody, body |-> None], <<>>,
                              space[1], lang[1], Pruned(FirstBody)).ret

C5_Witness ==
  /\ Returned
  /\ Kids = <<Head_r1,
              Element(BODY_ELEMENT_QNAME, EmptyDict,
                      <<Element(OTHER_ELEMENT_QNAME, EmptyDict,
                                <<Element(P_ELEMENT_QNAME, EmptyDict, <<>>)>>)>>)>>
  /\ BodyNode.kind = "Body"
  /\ BodyNode.children = <<>>

-----------------------------------------------------------------------------
(* Fatal and recoverable conditions *)

\* C8: to_model yields no Document and processes no child when the root is not
\* tt; when the root is tt and no processed element carries a malformed style
\* value it runs to the end and returns the Document, whatever was logged.
C8_OnlyFatalStops ==
  /\ (pc = "done" /\ xml_tree.tag # TT_ELEMENT_QNAME) =>
        result = "None" /\ doc = None /\ idx = 0
  /\ (pc = "done" /\ xml_tree.tag = TT_ELEMENT_QNAME /\ ~MalformedProcessed) =>
        Returned /\ doc # None /\ idx = Len(Kids) + 1
  /\ pc = "children" =>
        result = "running" /\ doc # None /\ idx \in 1..(Len(Kids) + 1)

C8_Witness ==
  /\ Returned
  /\ CountMsg("All regions must have an id") > 0
  /\ CountMsg("Element references unknown region") > 0
  /\ CountMsg("Unexpected child of head element") > 0

-----------------------------------------------------------------------------
(* The region map *)

\* C9: the region map of a returned Document holds exactly the ids of the region
\* children, having an id, of the first layout of the first head, each id naming
\* a region of that id; a region without an id is logged, never inserted, and
\* the regions after it are inserted all the same.
C9_RegionMap ==
  Returned =>
    /\ DOMAIN doc[1].regions = HeadRegionIds
    /\ \A rid \in DOMAIN doc[1].regions : doc[1].regions[rid].id = rid
    /\ CountMsg("All regions must have an id") =
         Len(SelectSeq(FirstLayoutKids, IsRegionWithoutId))

C9_Witness ==
  /\ Returned
  /\ Len(FirstLayoutKids) = 2
  /\ IsRegionWithoutId(FirstLayoutKids[1])
  /\ FirstLayoutKids[2] = Region_r1
  /\ DOMAIN doc[1].regions = {"r1"}

-----------------------------------------------------------------------------
(* Inherited xml:lang and xml:space *)

\* node n and the nodes below it carry the language and the space that e and
\* the elements below it have by "own attribute if present, else the parent's"
RECURSIVE EffectiveLangSpace(_, _, _, _)
EffectiveLangSpace(e, n, parent_space, parent_lang) ==
  LET own_lang == AttribGet(e.attrib, XMLLANG_ATTRIB_QNAME)
      own_space == AttribGet(e.attrib, XMLSPACE_ATTRIB_QNAME)
      l == IF own_lang # None THEN own_lang[1] ELSE parent_lang
      sp == IF own_space # None /\ own_space[1] \in WhiteSpaceHandling_members
            THEN own_space[1] ELSE parent_space
  IN /\ n.lang = Some(l)
     /\ n.space = Some(sp)
     /\ Len(Kept(e)) = Len(n.children)
     /\ \A k \in 1..Len(n.children) :
          EffectiveLangSpace(Kept(e)[k], n.children[k], sp, l)

\* C6: every content element of the model has the language and the space of its
\* own xml:lang / xml:space attribute, else those received from its parent; a
\* root without xml:lang logs a warning and hands down the empty language.
C6_LangSpaceInherited ==
  /\ (pc # "start" /\ xml_tree.tag = TT_ELEMENT_QNAME
        /\ XMLLANG_ATTRIB_QNAME \notin DOMAIN xml_tree.attrib) =>
       lang = Some("") /\ CountMsg("xml:lang not specified on tt") = 1
  /\ BodyDone => EffectiveLangSpace(FirstBody, BodyNode, space[1], lang[1])

-----------------------------------------------------------------------------
(* Cell resolution *)

\* C7: after the root is processed the cell resolution is the integers (40, 24)
\* when the root carries ttp:cellResolution="40 24", the default (32, 15) with no
\* diagnostic when it carries none, and (32, 15) with an error logged when it
\* carries ttp:cellResolution="bad".
C7_CellResolution ==
  (pc # "start" /\ xml_tree.tag = TT_ELEMENT_QNAME) =>
    LET cr == AttribGet(xml_tree.attrib, TTP_CELLRESOLUTION_CLARK) IN
    /\ cr = Some(CR_40_24) => cr_columns = PyInt(40) /\ cr_rows = PyInt(24)
    /\ (cr = None /\ CELLRESOLUTION_ATTRIB_QNAME \notin DOMAIN xml_tree.attrib) =>
         /\ cr_columns = PyInt(32) /\ cr_rows = PyInt(15)
         /\ CountMsg("invalid cellResolution syntax") = 0
    /\ cr = Some(CR_bad) =>
         /\ cr_columns = PyInt(32) /\ cr_rows = PyInt(15)
         /\ CountMsg("invalid cellResolution syntax") = 1

-----------------------------------------------------------------------------
(* The variants of a content element *)

VariantOf(tag) ==
  CASE tag = BODY_ELEMENT_QNAME -> "Body" [] tag = DIV_ELEMENT_QNAME -> "Div"
    [] tag = P_ELEMENT_QNAME -> "P" [] tag = SPAN_ELEMENT_QNAME -> "Span"

\* node n is of the variant of e and its children are, in order, the nodes of
\* the children of e that have a tag of the content vocabulary
RECURSIVE VariantTree(_, _)
VariantTree(e, n) ==
  LET kids == SelectSeq(e.children, HasContentTag)
  IN /\ n.kind = VariantOf(e.tag)
     /\ Len(kids) = Len(n.children)
     /\ \A k \in 1..Len(kids) : VariantTree(kids[k], n.children[k])

\* C10: every body, div, p and span element yields a node of its variant whose
\* children are the nodes of its direct children, in document order.
C10_ContentVariants ==
  BodyDone => VariantTree(FirstBody, BodyNode)

====
